---- MODULE Spec2Model ----
(***************************************************************************)
(* Model of the LightningModule wrapper of AGBD (Models/wrapper.py): the   *)
(* validation accumulators, the epoch-end reduction with its binned RMSE   *)
(* and the best-validation watermark, driven by a trainer that calls the   *)
(* hooks (Models/train.py), and the start of a run: the seeding of         *)
(* train.py and the center pixel of Model.__init__.                        *)
(*                                                                         *)
(* Numbers.  An RMSE is sqrt(sum of squared errors / number of samples).   *)
(* It is kept as the pair [num, den] of that quotient: sqrt is strictly    *)
(* increasing, so order and equality of RMSE values are those of the       *)
(* quotients, decided by cross-multiplication.  [0, 0] is NaN (the mean of *)
(* an empty tensor) and [1, 0] is +infinity (np.inf).                      *)
(***************************************************************************)
EXTENDS Integers, Sequences, FiniteSets, TLC

\* ---------------------------------------------------------------- bounds
\* Most samples a dataset split holds (and so the longest batch, and the
\* most one validation cycle dispatches to one accumulator).
MaxSamples == 2
\* Completed epoch-end reductions in the longest run.
MaxCycles == 3
\* Last value of the trainer's epoch index.
MaxEpoch == 1
\* Largest patch_size[0] a Model is built with.
MaxPatch == 25
\* Longest text of the environment variable SLURM_ARRAY_TASK_ID.
MaxEnvLen == 2

\* ------------------------------------------------------------- constants
\* Python's None (the default of dataloader_idx, and a metric logged with
\* no "step"), encoded as an integer that is no index and no epoch.
None == -1
\* batch_idx % 50 == 0 gates the diagnostic training metric.
LogEvery == 50
\* np.arange(0, 501, 50)
BinStart == 0
BinStop == 501
BinWidth == 50

\* ----------------------------------------------------------------- values
Inf == [num |-> 1, den |-> 0]
NaN == [num |-> 0, den |-> 0]

IsNaN(x) == x.num = 0 /\ x.den = 0
IsInf(x) == x.num # 0 /\ x.den = 0
IsFinite(x) == x.den # 0

\* Python's x < y on floats: false as soon as one side is NaN.
Lt(x, y) ==
    IF IsNaN(x) \/ IsNaN(y) THEN FALSE
    ELSE IF IsInf(x) THEN FALSE
    ELSE IF IsInf(y) THEN TRUE
    ELSE x.num * y.den < y.num * x.den

\* Numeric equality of two values (NaN equals nothing).
Eq(x, y) ==
    IF IsNaN(x) \/ IsNaN(y) THEN FALSE
    ELSE IF IsInf(x) \/ IsInf(y) THEN IsInf(x) /\ IsInf(y)
    ELSE x.num * y.den = y.num * x.den

\* ---------------------------------------------------------------- tensors
\* A 1-D tensor is a sequence of integers; a list of tensors a sequence of
\* them.  torch.cat over a non-empty list.
RECURSIVE Cat(_)
Cat(ts) == IF ts = <<>> THEN <<>> ELSE Head(ts) \o Cat(Tail(ts))

\* Samples held by a list of tensors.
RECURSIVE NumSamples(_)
NumSamples(ts) == IF ts = <<>> THEN 0 ELSE Len(Head(ts)) + NumSamples(Tail(ts))

RECURSIVE SumSq(_, _)
SumSq(preds, labels) ==
    IF preds = <<>> \/ labels = <<>> THEN 0
    ELSE (Head(preds) - Head(labels)) * (Head(preds) - Head(labels))
         + SumSq(Tail(preds), Tail(labels))

\* RMSE()(preds, labels): root of the mean squared error; NaN over nothing.
RMSE(preds, labels) == [num |-> SumSq(preds, labels), den |-> Len(labels)]

\* bins = np.arange(0, 501, 50)
Bins == [i \in 1..((BinStop - BinStart + BinWidth - 1) \div BinWidth) |->
            BinStart + BinWidth * (i - 1)]

\* zip(bins[:-1], bins[1:])
BinPairs == [i \in 1..(Len(Bins) - 1) |-> [lb |-> Bins[i], ub |-> Bins[i + 1]]]

\* "<=" on the upper bound too.
Mask_Closed(lb, ub, labels) ==
    [i \in 1..Len(labels) |-> lb <= labels[i] /\ labels[i] <= ub]

\* mask = (lb <= labels) & (labels < ub)
Mask(lb, ub, labels) == [i \in 1..Len(labels) |-> lb <= labels[i] /\ labels[i] < ub]

\* t[mask]: the entries of t the mask selects, in order.
RECURSIVE Select(_, _)
Select(t, mask) ==
    IF t = <<>> \/ mask = <<>> THEN <<>>
    ELSE (IF Head(mask) THEN <<Head(t)>> ELSE <<>>) \o Select(Tail(t), Tail(mask))

\* ----------------------------------------------------------------- inputs
\* (prediction of channel 0 at the center pixel, label) of one sample.
\* A label on the edge between two bins (50) and one at the upper end of
\* the last bin (500); absolute errors 8 and 10.
Samples == { [pred |-> 58, label |-> 50],
             [pred |-> 510, label |-> 500] }

\* Samples of absolute error 10, 8 and 9, the last with a negative label.
SmallSamples == { [pred |-> 10, label |-> 0],
                  [pred |-> 58, label |-> 50],
                  [pred |-> 4, label |-> -5] }

\* A batch as validation_step and training_step see it after the forward
\* pass: predictions[:, 0], of shape [n], and the label tensor, of shape
\* [m] (label_dims 1) or [m, 1] (label_dims 2).  A DataLoader yields the
\* labels of the images it yields: m = n, shape [n].
BatchOf(s) == [preds |-> [i \in 1..Len(s) |-> s[i].pred],
               labels |-> [i \in 1..Len(s) |-> s[i].label],
               label_dims |-> 1]

\* The batches of 1..maxLen samples drawn from a set of samples.
BatchesOf(samples, maxLen) ==
    { BatchOf(s) : s \in UNION { [1..n -> samples] : n \in 1..maxLen } }

\* What a run is configured with: the batches its validation and test
\* DataLoaders yield, the number of samples of a split, and how many
\* validation cycles the trainer runs.  Splits of MaxSamples samples over
\* a run of one cycle, and splits of a single sample over MaxCycles cycles.
Configs == { [batches |-> BatchesOf(Samples, MaxSamples), size |-> MaxSamples,
              cycles |-> 1],
             [batches |-> BatchesOf(SmallSamples, 1), size |-> 1,
              cycles |-> MaxCycles] }

\* Batches of the training DataLoader.
TrainBatches == { BatchOf(<<[pred |-> 10, label |-> 0], [pred |-> 58, label |-> 50]>>) }

\* Batches whose label tensor need not have the shape of the predictions:
\* labels of shape [2, 1], [1] and [3] against predictions of shape [2],
\* labels of shape [2] against predictions of shape [1], and batches whose
\* shapes agree.
ShapedBatches ==
    { [preds |-> <<10, 58>>, labels |-> <<0, 50>>, label_dims |-> 1],
      [preds |-> <<10, 58>>, labels |-> <<0, 50>>, label_dims |-> 2],
      [preds |-> <<10, 58>>, labels |-> <<50>>, label_dims |-> 1],
      [preds |-> <<10, 58>>, labels |-> <<0, 50, 500>>, label_dims |-> 1],
      [preds |-> <<58>>, labels |-> <<0, 50>>, label_dims |-> 1],
      [preds |-> <<58>>, labels |-> <<50>>, label_dims |-> 1] }

DataloaderIdxs == {None, 0, 1, 2}
BatchIdxs == {0, 1, LogEvery}

\* ------------------------------------------------------------------ state
VARIABLES
    val_preds, val_labels,      \* self.val_preds, self.val_labels
    test_preds, test_labels,    \* self.test_preds, self.test_labels
    best_val_rmse,              \* self.best_val_rmse
    current_epoch,              \* self.current_epoch (owned by the trainer)
    op,                         \* the hook called last
    outcome,                    \* how that call ended
    logged,                     \* what that call passed to log / log_dict
    hist,                       \* one record per completed reduction
    pre,                        \* the lists and the watermark when that call began
    arg_batch, arg_idx,         \* the batch and the index that call was given
    loader,                     \* batches the val / test DataLoaders yield
    split_len,                  \* samples of the val / test split
    n_cycles,                   \* validation cycles the trainer runs
    slurm_task_id,              \* os.environ.get('SLURM_ARRAY_TASK_ID')
    seed,                       \* the seed given to seed_everything
    patch_size, downsample,     \* patch_size[0] and downsample of __init__
    center,                     \* self.center
    steps,                      \* the statements that call ran, in order
    cycle                       \* the validation cycle under way, when followed

vars == <<val_preds, val_labels, test_preds, test_labels, best_val_rmse,
          current_epoch, op, outcome, logged, hist, pre, arg_batch, arg_idx,
          loader, split_len, n_cycles, slurm_task_id, seed, patch_size,
          downsample, center, steps, cycle>>

\* The run's configuration, fixed once main() has built the model.
config == <<loader, split_len, n_cycles, slurm_task_id, seed, patch_size,
            downsample, center>>

\* The wrapper's lists and watermark as a call finds them.
Snapshot == [val_preds |-> val_preds, val_labels |-> val_labels,
             test_preds |-> test_preds, test_labels |-> test_labels,
             best_val_rmse |-> best_val_rmse, cycle |-> cycle]

\* A validation cycle: the lists as the previous reduction left them (or as
\* __init__ made them) and the validation_step calls accepted since.
CycleStart(vp, vl, tp, tl) ==
    [val_preds |-> vp, val_labels |-> vl, test_preds |-> tp,
     test_labels |-> tl, arrivals |-> <<>>]

\* A call that takes no batch.
NoBatch == [preds |-> <<>>, labels |-> <<>>, label_dims |-> 1]

\* The record of a call: what it found and what it was given.
Called(batch, idx) ==
    /\ pre' = Snapshot
    /\ arg_batch' = batch
    /\ arg_idx' = idx

Event(name, value, step) == [name |-> name, value |-> value, step |-> step]

\* ------------------------------------------------------------------ start-up
\* The environment variable: unset (os.environ.get gives None) or a text.
Unset == [set |-> FALSE, text |-> <<>>]

EnvText(text) == [set |-> TRUE, text |-> text]

\* Characters of the texts tried: digits and a character that is not one.
EnvChars == {"0", "1", "7", "x"}

TextsUpTo(n) == UNION { [1..k -> EnvChars] : k \in 0..n }

\* What SLURM_ARRAY_TASK_ID can be when train.py is imported: Slurm sets it
\* to the index of the array task, a non-negative integer in decimal.
EnvValues == {Unset} \cup { EnvText(t) : t \in TextsUpTo(MaxEnvLen) }

Digits == <<"0", "1", "2", "3", "4", "5", "6", "7", "8", "9">>

IsDigit(ch) == \E i \in 1..Len(Digits) : Digits[i] = ch

DigitVal(ch) == (CHOOSE i \in 1..Len(Digits) : Digits[i] = ch) - 1

\* int(x) raises: TypeError for None, ValueError for a text that is not a
\* decimal integer.
IntRaises(x) ==
    \/ ~x.set
    \/ x.text = <<>>
    \/ \E i \in 1..Len(x.text) : ~IsDigit(x.text[i])

RECURSIVE IntOf(_)
\* int(text) for a text of decimal digits.
IntOf(text) ==
    IF text = <<>> THEN 0
    ELSE 10 * IntOf(SubSeq(text, 1, Len(text) - 1)) + DigitVal(text[Len(text)])

\* seed_everything(3 + n) and seed_everything(3)
BaseSeed == 3

\* The "except" branch taken for every task index too.
SeedFor_Fixed(x) == BaseSeed

\* try: seed_everything(3 + int(os.environ.get('SLURM_ARRAY_TASK_ID')))
\* except: seed_everything(3)
SeedFor(x) == IF IntRaises(x) THEN BaseSeed ELSE BaseSeed + IntOf(x.text)

\* The two branches of "if downsample" exchanged.
Center_Exchanged(size, down) ==
    IF down THEN size \div 2 ELSE (size \div 5) \div 2

\* self.center, from patch_size[0] and downsample.
Center(size, down) ==
    IF down THEN (size \div 5) \div 2 ELSE size \div 2

\* patch_size[0] of the runs tried.
PatchSizes == 1..MaxPatch

\* The patch size and the flag of the runs whose hooks are followed.
RunPatchSize == 15

\* The wrapper as Model.__init__ leaves it, and the trainer before fit.
Fresh ==
    /\ val_preds = <<>> /\ val_labels = <<>>
    /\ test_preds = <<>> /\ test_labels = <<>>
    /\ best_val_rmse = Inf
    /\ current_epoch = 0
    /\ outcome = "ok"
    /\ logged = <<>>
    /\ steps = <<>>
    /\ hist = <<>>
    /\ cycle = CycleStart(<<>>, <<>>, <<>>, <<>>)
    /\ pre = [val_preds |-> <<>>, val_labels |-> <<>>,
              test_preds |-> <<>>, test_labels |-> <<>>,
              best_val_rmse |-> Inf,
              cycle |-> CycleStart(<<>>, <<>>, <<>>, <<>>)]
    /\ arg_batch = NoBatch
    /\ arg_idx = None

\* The state once train.py has seeded the run and main() has built the
\* Model, for a run of configuration c.
InitWith(c) ==
    /\ Fresh
    /\ op = "__init__"
    /\ loader = c.batches /\ split_len = c.size /\ n_cycles = c.cycles
    /\ slurm_task_id = Unset
    /\ seed = SeedFor(Unset)
    /\ patch_size = RunPatchSize
    /\ downsample = FALSE
    /\ center = Center(RunPatchSize, FALSE)

\* Model.__init__
Init == \E c \in Configs : InitWith(c)

\* The process as train.py starts: nothing seeded, no loader and no Model
\* built, no trainer.
InitSetup ==
    /\ Fresh
    /\ op = "import"
    /\ loader = {} /\ split_len = 0 /\ n_cycles = 0
    /\ slurm_task_id \in EnvValues
    /\ seed = None
    /\ patch_size \in PatchSizes
    /\ downsample \in BOOLEAN
    /\ center = None

\* The try / except of train.py, run when the module is imported.
SeedEverything ==
    /\ op = "import"
    /\ seed' = SeedFor(slurm_task_id)
    /\ op' = "seed_everything"
    /\ outcome' = "ok"
    /\ UNCHANGED <<val_preds, val_labels, test_preds, test_labels,
                   best_val_rmse, current_epoch, logged, hist, pre, arg_batch,
                   arg_idx, loader, split_len, n_cycles, slurm_task_id,
                   patch_size, downsample, center, steps, cycle>>

\* Model(..., patch_size = args.patch_size, downsample = args.downsample)
Construct ==
    /\ op = "seed_everything"
    /\ center' = Center(patch_size, downsample)
    /\ val_preds' = <<>> /\ val_labels' = <<>>
    /\ test_preds' = <<>> /\ test_labels' = <<>>
    /\ best_val_rmse' = Inf
    /\ op' = "__init__"
    /\ outcome' = "ok"
    /\ UNCHANGED <<current_epoch, logged, hist, pre, arg_batch, arg_idx,
                   loader, split_len, n_cycles, slurm_task_id, seed,
                   patch_size, downsample, steps, cycle>>

NextSetup ==
    \/ SeedEverything
    \/ Construct

SpecSetup == InitSetup /\ [][NextSetup]_vars

\* The learning rate read from the scheduler's optimizer: a reading of the
\* optimizer collaborator, which no hook of the wrapper writes.
SchedulerLr == [num |-> 1, den |-> 1000]

\* The run lasts n_cycles completed validation cycles.
Running == Len(hist) < n_cycles

\* ----------------------------------------------------------- training_step
\* torch.sqrt(torch.mean(torch.pow(predictions[:, 0] - labels, 2)))
TrainRmse(preds, labels) == [num |-> SumSq(preds, labels), den |-> Len(preds)]

\* "and batch_idx > 0" added: the first batch is not reported.
LogsTrainRmse_NotFirst(batch_idx) == batch_idx % LogEvery = 0 /\ batch_idx > 0

\* if batch_idx % 50 == 0
LogsTrainRmse(batch_idx) == batch_idx % LogEvery = 0

\* Whether torch broadcasts a tensor of shape [n] with one of shape [m]
\* (dims 1) or [m, 1] (dims 2): sizes are matched from the last dimension
\* backwards, and two sizes match when they are equal or one of them is 1.
Broadcasts(n, m, dims) == dims = 2 \/ n = m \/ n = 1 \/ m = 1

\* The elements of "predictions[:, 0] - labels", as the pairs subtracted:
\* [n] with [m, 1] gives the m x n table of every prediction against every
\* label, row by row; a tensor of one element is repeated.
BroadcastPreds(preds, labels, dims) ==
    LET n == Len(preds)
        m == Len(labels)
    IN IF dims = 2 THEN [k \in 1..(m * n) |-> preds[((k - 1) % n) + 1]]
       ELSE IF n = 1 THEN [k \in 1..m |-> preds[1]]
       ELSE preds

BroadcastLabels(preds, labels, dims) ==
    LET n == Len(preds)
        m == Len(labels)
    IN IF dims = 2 THEN [k \in 1..(m * n) |-> labels[((k - 1) \div n) + 1]]
       ELSE IF m = 1 THEN [k \in 1..n |-> labels[1]]
       ELSE labels

\* The label tensor has the shape of predictions[:, 0].
SameShape(batch) ==
    batch.label_dims = 1 /\ Len(batch.labels) = Len(batch.preds)

\* How self.TrainLoss(predictions, labels) ends: with the loss; for labels
\* of another shape than the predictions it may raise instead.
TrainLossOutcomes(batch) ==
    IF SameShape(batch) THEN {"loss"} ELSE {"loss", "RuntimeError"}

\* training_step(batch, batch_idx), for the batches a loader can yield.
TrainingStepOn(batches) ==
    /\ Running
    /\ \E batch \in batches, batch_idx \in BatchIdxs :
        LET n == Len(batch.preds)
            m == Len(batch.labels)
            dims == batch.label_dims
        IN
        /\ op' = "training_step"
        /\ Called(batch, batch_idx)
        /\ IF LogsTrainRmse(batch_idx) /\ ~Broadcasts(n, m, dims)
           THEN /\ logged' = <<>>
                /\ outcome' = "RuntimeError"
           ELSE /\ logged' =
                     IF LogsTrainRmse(batch_idx)
                     THEN <<Event("train/agbd_rmse",
                                  TrainRmse(BroadcastPreds(batch.preds, batch.labels, dims),
                                            BroadcastLabels(batch.preds, batch.labels, dims)),
                                  None)>>
                     ELSE <<>>
                /\ outcome' \in TrainLossOutcomes(batch)
    /\ steps' = <<>>
    /\ UNCHANGED <<val_preds, val_labels, test_preds, test_labels,
                   best_val_rmse, current_epoch, hist, config, cycle>>

TrainingStep == TrainingStepOn(TrainBatches)

\* --------------------------------------------------------- validation_step
\* The final "else" falling back to the validation branch.
Route_Default(dataloader_idx) ==
    IF dataloader_idx = 1 THEN "test" ELSE "val"

\* The branch validation_step takes for a dataloader_idx.
Route(dataloader_idx) ==
    IF dataloader_idx = None \/ dataloader_idx = 0 THEN "val"
    ELSE IF dataloader_idx = 1 THEN "test"
    ELSE "raise"

\* list.insert(0, t) in place of list.append(t).
Append1_Front(list, t) == <<t>> \o list

\* list.append
Append1(list, t) == Append(list, t)

\* The statement left out: the labels of the batch are not kept.
AppendLabels_Skipped(list, labels) == list

\* self.val_labels.append(labels.detach().cpu()): detach and cpu keep the
\* values and the shape.
AppendLabels(list, labels) == Append1(list, labels)

\* validation_step(batch, batch_idx, dataloader_idx); batch_idx is not read.
\* A validation cycle passes over a split once, so a source is dispatched
\* at most split_len samples between two reductions.
ValidationStepWith(batch, dataloader_idx) ==
    LET route == Route(dataloader_idx) IN
    /\ Running
    /\ op' = "validation_step"
    /\ Called(batch, dataloader_idx)
    /\ logged' = <<>>
    /\ steps' = <<>>
    /\ CASE route = "val" ->
             /\ NumSamples(val_preds) + Len(batch.preds) <= split_len
             /\ val_preds' = Append1(val_preds, batch.preds)
             /\ val_labels' = AppendLabels(val_labels, batch.labels)
             /\ outcome' = "ok"
             /\ UNCHANGED <<test_preds, test_labels>>
         [] route = "test" ->
             /\ NumSamples(test_preds) + Len(batch.preds) <= split_len
             /\ test_preds' = Append1(test_preds, batch.preds)
             /\ test_labels' = AppendLabels(test_labels, batch.labels)
             /\ outcome' = "ok"
             /\ UNCHANGED <<val_preds, val_labels>>
         [] OTHER ->
             /\ outcome' = "ValueError"
             /\ UNCHANGED <<val_preds, val_labels, test_preds, test_labels>>
    /\ UNCHANGED <<best_val_rmse, current_epoch, hist, config>>

ValidationStep ==
    /\ \E batch \in loader, dataloader_idx \in DataloaderIdxs :
        ValidationStepWith(batch, dataloader_idx)
    /\ UNCHANGED cycle

\* ------------------------------------------------- on_validation_epoch_end
\* f'{prefix}{lb}-{ub}'
BinName(prefix, lb, ub) == prefix \o ToString(lb) \o "-" \o ToString(ub)

\* The bins taken from the last to the first.
BinnedEvents_Descending(prefix, preds, labels, step) ==
    [i \in 1..Len(BinPairs) |->
        LET lb == BinPairs[Len(BinPairs) + 1 - i].lb
            ub == BinPairs[Len(BinPairs) + 1 - i].ub
            mask == Mask(lb, ub, labels)
        IN Event(BinName(prefix, lb, ub),
                 RMSE(Select(preds, mask), Select(labels, mask)), step)]

\* One pass of "for lb, ub in zip(bins[:-1], bins[1:])": a log_dict per bin.
BinnedEvents(prefix, preds, labels, step) ==
    [i \in 1..Len(BinPairs) |->
        LET lb == BinPairs[i].lb
            ub == BinPairs[i].ub
            mask == Mask(lb, ub, labels)
        IN Event(BinName(prefix, lb, ub),
                 RMSE(Select(preds, mask), Select(labels, mask)), step)]

\* Overall RMSE of a source, then its bins.
SourceEvents(overall, prefix, preds, labels, step) ==
    <<Event(overall, RMSE(preds, labels), step)>>
        \o BinnedEvents(prefix, preds, labels, step)

\* The assignment left out: the list keeps its tensors.
Reset_Skipped(list) == list

\* "Set the predictions and labels back to empty lists": self.x = []
Reset(list) == <<>>

\* An empty list taken for an empty tensor instead of an error.
CatRaises_Never(list) == FALSE

\* torch.cat raises on an empty list of tensors.
CatRaises(list) == list = <<>>

\* The "best" metric names a log holds.
BestNames(log) ==
    { log[i].name : i \in { j \in 1..Len(log) :
          \/ log[j].name \in {"val/best_rmse", "test/best_rmse"}
          \/ \E k \in 1..Len(BinPairs) :
                log[j].name = "test/binned/best_rmse_" \o ToString(BinPairs[k].lb)
                                \o "-" \o ToString(BinPairs[k].ub) } }

\* "<=" in place of "<": a tie updates too.
Improves_OrEqual(val_agbd_rmse, best) == ~Lt(best, val_agbd_rmse)

\* "!=" in place of "<": any different value replaces the watermark.
Improves_Changed(val_agbd_rmse, best) == ~Eq(val_agbd_rmse, best)

\* ">" in place of "<".
Improves_Reversed(val_agbd_rmse, best) == Lt(best, val_agbd_rmse)

\* if val_agbd_rmse < self.best_val_rmse
Improves(val_agbd_rmse, best) == Lt(val_agbd_rmse, best)

\* The "best" test metrics read from self.test_preds / self.test_labels,
\* which are empty by then, instead of the local tensors.
BestEvents_FromCleared(val_agbd_rmse, test_agbd_rmse, test_p, test_l, step) ==
    <<Event("val/best_rmse", val_agbd_rmse, step),
      Event("test/best_rmse", RMSE(<<>>, <<>>), step)>>
        \o BinnedEvents("test/binned/best_rmse_", <<>>, <<>>, step)

\* The test RMSE kept as the watermark.
NewWatermark_Test(val_agbd_rmse, test_agbd_rmse) == test_agbd_rmse

\* self.best_val_rmse = val_agbd_rmse
NewWatermark(val_agbd_rmse, test_agbd_rmse) == val_agbd_rmse

\* The body of the "if": what is logged when the watermark is updated.
BestEvents(val_agbd_rmse, test_agbd_rmse, test_p, test_l, step) ==
    <<Event("val/best_rmse", val_agbd_rmse, step),
      Event("test/best_rmse", test_agbd_rmse, step)>>
        \o BinnedEvents("test/binned/best_rmse_", test_p, test_l, step)

\* The statements of a reduction that are no call of log / log_dict.
ResetVal == <<"self.val_preds = []", "self.val_labels = []">>
ResetTest == <<"self.test_labels = []", "self.test_preds = []">>
Compare == <<"if val_agbd_rmse < self.best_val_rmse">>

\* The log / log_dict calls of a list of events, by metric name.
LogCalls(events) == [i \in 1..Len(events) |-> events[i].name]

\* The body of on_validation_epoch_end.
EpochEndReduction ==
    /\ Running
    /\ op' = "on_validation_epoch_end"
    /\ Called(NoBatch, None)
    /\ UNCHANGED <<current_epoch, config>>
    /\ LET step == current_epoch
           lrEv == <<Event("trainer/learning_rate", SchedulerLr, step)>>
       IN
       IF CatRaises(val_preds) \/ CatRaises(val_labels)
       THEN
            /\ outcome' = "RuntimeError"
            /\ logged' = lrEv
            /\ steps' = LogCalls(lrEv)
            /\ UNCHANGED <<val_preds, val_labels, test_preds, test_labels,
                           best_val_rmse, hist>>
       ELSE
         LET val_p == Cat(val_preds)
             val_l == Cat(val_labels)
             val_agbd_rmse == RMSE(val_p, val_l)
             valEv == SourceEvents("val/agbd_rmse", "val/binned/rmse_",
                                   val_p, val_l, step)
         IN
         /\ val_preds' = Reset(val_preds)
         /\ val_labels' = Reset(val_labels)
         /\ IF CatRaises(test_preds) \/ CatRaises(test_labels)
            THEN /\ outcome' = "RuntimeError"
                 /\ logged' = lrEv \o valEv
                 /\ steps' = LogCalls(lrEv \o valEv) \o ResetVal
                 /\ UNCHANGED <<test_preds, test_labels, best_val_rmse, hist>>
            ELSE
              LET test_p == Cat(test_preds)
                  test_l == Cat(test_labels)
                  test_agbd_rmse == RMSE(test_p, test_l)
                  testEv == SourceEvents("test/agbd_rmse", "test/binned/rmse_",
                                         test_p, test_l, step)
              IN
              /\ test_labels' = Reset(test_labels)
              /\ test_preds' = Reset(test_preds)
              /\ outcome' = "ok"
              /\ IF Improves(val_agbd_rmse, best_val_rmse)
                 THEN LET bestEv == BestEvents(val_agbd_rmse, test_agbd_rmse,
                                               test_p, test_l, step)
                      IN
                      /\ best_val_rmse' = NewWatermark(val_agbd_rmse, test_agbd_rmse)
                      /\ logged' = lrEv \o valEv \o testEv \o bestEv
                      /\ steps' = LogCalls(lrEv \o valEv) \o ResetVal
                            \o LogCalls(testEv) \o ResetTest \o Compare
                            \o LogCalls(bestEv)
                 ELSE /\ UNCHANGED best_val_rmse
                      /\ logged' = lrEv \o valEv \o testEv
                      /\ steps' = LogCalls(lrEv \o valEv) \o ResetVal
                            \o LogCalls(testEv) \o ResetTest \o Compare
              /\ hist' = Append(hist, [val |-> val_agbd_rmse,
                                       watermark |-> best_val_rmse',
                                       bests |-> BestNames(logged'),
                                       epoch |-> step])

OnValidationEpochEnd ==
    /\ EpochEndReduction
    /\ UNCHANGED cycle

\* ----------------------------------------------------------------- trainer
\* The fit loop moves to the next epoch.  Validation cycles run inside an
\* epoch, the last of them at its end (val_check_interval = 0.5), so an
\* epoch ends after a cycle of its own and several reductions can share
\* one epoch index.
AdvanceEpoch ==
    /\ Running
    /\ current_epoch < MaxEpoch
    /\ hist # <<>>
    /\ hist[Len(hist)].epoch = current_epoch
    /\ current_epoch' = current_epoch + 1
    /\ UNCHANGED <<val_preds, val_labels, test_preds, test_labels,
                   best_val_rmse, op, outcome, logged, hist, pre, arg_batch,
                   arg_idx, config, steps, cycle>>

Next ==
    \/ TrainingStep
    \/ ValidationStep
    \/ OnValidationEpochEnd
    \/ AdvanceEpoch

Spec == Init /\ [][Next]_vars

\* ----------------------------------------------------------- label shapes
\* The hooks called with batches whose label tensor need not have the shape
\* of the predictions.
InitShapes ==
    InitWith([batches |-> ShapedBatches, size |-> MaxSamples, cycles |-> 1])

ShapedTrainingStep == TrainingStepOn(ShapedBatches)

NextShapes ==
    \/ ShapedTrainingStep
    \/ ValidationStep

SpecShapes == InitShapes /\ [][NextShapes]_vars

\* ------------------------------------------------------ validation cycles
\* trainer.fit(..., val_dataloaders = [val_loader, test_loader]): the
\* trainer numbers the two loaders 0 and 1.
FitIdxs == {0, 1}

\* validation_step as the validation loop of fit calls it, the call noted
\* in the cycle under way.
FollowedValidationStep ==
    \E batch \in loader, dataloader_idx \in FitIdxs :
        /\ ValidationStepWith(batch, dataloader_idx)
        /\ cycle' = [cycle EXCEPT
                        !.arrivals = Append(@, [idx |-> dataloader_idx,
                                                batch |-> batch])]

\* on_validation_epoch_end; the next cycle starts from the lists it leaves.
FollowedEpochEnd ==
    /\ EpochEndReduction
    /\ cycle' = CycleStart(val_preds', val_labels', test_preds', test_labels')

NextCycles ==
    \/ FollowedValidationStep
    \/ FollowedEpochEnd

SpecCycles == Init /\ [][NextCycles]_vars

\* ------------------------------------------------------------------ claims
RECURSIVE DecimalText(_)
\* The decimal text of a natural number, as str(n) writes it.
DecimalText(n) ==
    IF n < 10 THEN <<Digits[n + 1]>>
    ELSE Append(DecimalText(n \div 10), Digits[(n % 10) + 1])

\* A text of z zeros.
Zeros(z) == [i \in 1..z |-> "0"]

\* The text writes the natural number n in decimal, leading zeros allowed.
Writes(text, n) == \E z \in 0..Len(text) : text = Zeros(z) \o DecimalText(n)

\* The task indices a text of the longest length can write.
TaskIds == 0..(10 ^ MaxEnvLen - 1)

Reported(log, name) == \E i \in 1..Len(log) : log[i].name = name

ValueOf(log, name) ==
    log[CHOOSE i \in 1..Len(log) : log[i].name = name].value

ReductionCompleted == op = "on_validation_epoch_end" /\ outcome = "ok"

\* C1: after every epoch-end reduction that completes, the validation
\* accumulator and the test accumulator are both empty, as they are in a
\* freshly constructed Model, whether or not the watermark was updated.
C1_DrainedAfterReduction ==
    ReductionCompleted =>
        /\ val_preds = <<>> /\ val_labels = <<>>
        /\ test_preds = <<>> /\ test_labels = <<>>

\* A completed reduction that did not update the watermark.
C1_Witness ==
    /\ ReductionCompleted
    /\ Len(hist) >= 2
    /\ ~Reported(logged, "val/best_rmse")

\* C2: validation_step on a batch B with source index s in {0, 1} leaves the
\* accumulator of s holding |B| more samples, B's after those already
\* there, and leaves the other accumulator and the watermark unchanged.
C2_ValidationStepAppends ==
    (op = "validation_step" /\ arg_idx \in {0, 1}) =>
        /\ outcome = "ok"
        /\ arg_idx = 0 =>
             /\ NumSamples(val_preds) = NumSamples(pre.val_preds) + Len(arg_batch.preds)
             /\ NumSamples(val_labels) = NumSamples(pre.val_labels) + Len(arg_batch.labels)
             /\ Cat(val_preds) = Cat(pre.val_preds) \o arg_batch.preds
             /\ Cat(val_labels) = Cat(pre.val_labels) \o arg_batch.labels
             /\ test_preds = pre.test_preds /\ test_labels = pre.test_labels
        /\ arg_idx = 1 =>
             /\ NumSamples(test_preds) = NumSamples(pre.test_preds) + Len(arg_batch.preds)
             /\ NumSamples(test_labels) = NumSamples(pre.test_labels) + Len(arg_batch.labels)
             /\ Cat(test_preds) = Cat(pre.test_preds) \o arg_batch.preds
             /\ Cat(test_labels) = Cat(pre.test_labels) \o arg_batch.labels
             /\ val_preds = pre.val_preds /\ val_labels = pre.val_labels
        /\ best_val_rmse = pre.best_val_rmse

\* A second, different batch has been dispatched to the validation source
\* (index 0) while the test accumulator holds samples.
C2_Witness ==
    /\ op = "validation_step" /\ outcome = "ok" /\ arg_idx = 0
    /\ Len(val_preds) = 2
    /\ val_preds[1] # val_preds[2]
    /\ test_preds # <<>>

\* The RMSE value x of a whole number x.
Exactly(x) == [num |-> x * x, den |-> 1]

\* x <= y on values that are numbers.
Le(x, y) == Lt(x, y) \/ Eq(x, y)

\* C3: a completed reduction updates the watermark, and reports the "best"
\* metrics, if and only if the validation RMSE it reports is strictly less
\* than the watermark it found; on a tie it does neither.  For validation
\* RMSEs 10, 8, 9 the watermarks are 10, 8, 8 and "best" metrics are
\* reported in the first and second reduction only.
C3_StrictImprovementOnly ==
    /\ ReductionCompleted =>
         LET v == ValueOf(logged, "val/agbd_rmse")
             improved == Lt(v, pre.best_val_rmse)
         IN /\ (best_val_rmse # pre.best_val_rmse) <=> improved
            /\ improved => best_val_rmse = v
            /\ improved => /\ Reported(logged, "val/best_rmse")
                           /\ Reported(logged, "test/best_rmse")
                           /\ \E k \in 1..Len(BinPairs) :
                                Reported(logged, BinName("test/binned/best_rmse_",
                                                         BinPairs[k].lb, BinPairs[k].ub))
            /\ ~improved => BestNames(logged) = {}
            /\ Eq(v, pre.best_val_rmse) =>
                 best_val_rmse = pre.best_val_rmse /\ BestNames(logged) = {}
    /\ ( /\ Len(hist) = 3
         /\ Eq(hist[1].val, Exactly(10))
         /\ Eq(hist[2].val, Exactly(8))
         /\ Eq(hist[3].val, Exactly(9)) ) =>
            /\ Eq(hist[1].watermark, Exactly(10))
            /\ Eq(hist[2].watermark, Exactly(8))
            /\ Eq(hist[3].watermark, Exactly(8))
            /\ hist[1].bests # {} /\ hist[2].bests # {} /\ hist[3].bests = {}

\* The third reduction of a run whose validation RMSEs were 10, 8, 9.
C3_Witness ==
    /\ ReductionCompleted
    /\ Len(hist) = 3
    /\ Eq(hist[1].val, Exactly(10))
    /\ Eq(hist[2].val, Exactly(8))
    /\ Eq(hist[3].val, Exactly(9))

\* A completed reduction whose validation RMSE ties with the watermark.
C3_TieReached ==
    /\ ReductionCompleted
    /\ Eq(ValueOf(logged, "val/agbd_rmse"), pre.best_val_rmse)

\* C4: the watermark never increases: no call leaves it greater than it
\* found it, and the watermarks of successive reductions never increase.
C4_WatermarkNonIncreasing ==
    /\ ~IsNaN(best_val_rmse)
    /\ Le(best_val_rmse, pre.best_val_rmse)
    /\ \A i, j \in 1..Len(hist) : i < j => Le(hist[j].watermark, hist[i].watermark)
    /\ hist # <<>> => Eq(best_val_rmse, hist[Len(hist)].watermark)

\* The watermark went down from a finite value, and a later call that is
\* no reduction has run.
C4_Witness ==
    /\ Len(hist) >= 2
    /\ Lt(hist[2].watermark, hist[1].watermark)
    /\ op = "training_step"
    /\ val_preds # <<>>

\* C5: the watermark is +infinity while no reduction has completed, and
\* otherwise the least validation RMSE of the reductions completed so far.
C5_WatermarkIsMinimum ==
    IF hist = <<>>
    THEN best_val_rmse = Inf
    ELSE /\ \E i \in 1..Len(hist) : Eq(best_val_rmse, hist[i].val)
         /\ \A i \in 1..Len(hist) : Le(best_val_rmse, hist[i].val)

\* The least validation RMSE is that of an earlier reduction, not the last.
C5_Witness ==
    /\ Len(hist) >= 2
    /\ Lt(hist[1].val, hist[Len(hist)].val)
    /\ Eq(best_val_rmse, hist[1].val)

\* C6: when a reduction updates the watermark, test/best_rmse is the
\* test/agbd_rmse of the same reduction and each best bin metric is that
\* reduction's bin metric, over the test samples the reduction found,
\* although the test accumulator is cleared by then.
C6_BestIsSameEpochTest ==
    (ReductionCompleted /\ Reported(logged, "val/best_rmse")) =>
        /\ test_preds = <<>> /\ test_labels = <<>>
        /\ Reported(logged, "test/best_rmse")
        /\ ValueOf(logged, "test/best_rmse") = ValueOf(logged, "test/agbd_rmse")
        /\ ValueOf(logged, "test/best_rmse")
              = RMSE(Cat(pre.test_preds), Cat(pre.test_labels))
        /\ \A k \in 1..Len(BinPairs) :
             LET lb == BinPairs[k].lb
                 ub == BinPairs[k].ub
                 now == BinName("test/binned/rmse_", lb, ub)
                 best == BinName("test/binned/best_rmse_", lb, ub)
             IN /\ Reported(logged, best) <=> Reported(logged, now)
                /\ Reported(logged, best) =>
                     ValueOf(logged, best) = ValueOf(logged, now)

\* A later reduction improves on a finite watermark and reports a test RMSE
\* that is a number and differs from the validation RMSE.
C6_Witness ==
    /\ ReductionCompleted
    /\ Len(hist) >= 2
    /\ Reported(logged, "val/best_rmse")
    /\ IsFinite(ValueOf(logged, "test/best_rmse"))
    /\ ~Eq(ValueOf(logged, "test/best_rmse"), ValueOf(logged, "val/best_rmse"))

\* Labels of a tensor that lie in [lb, ub).
InBin(labels, lb, ub) == { i \in 1..Len(labels) : lb <= labels[i] /\ labels[i] < ub }

\* A bin metric of a source is reported exactly for the bins that hold one
\* of the labels, and then with a value that is a number.
BinsReportedIffFilled(log, prefix, labels) ==
    \A k \in 1..Len(BinPairs) :
        LET lb == BinPairs[k].lb
            ub == BinPairs[k].ub
            name == BinName(prefix, lb, ub)
        IN /\ Reported(log, name) <=> InBin(labels, lb, ub) # {}
           /\ Reported(log, name) => ~IsNaN(ValueOf(log, name))

\* C7: in a reduction a bin metric of a source (val, test, and test under
\* "best") is reported if and only if a label of that source lies in the
\* bin; an empty bin yields no metric at all, neither zero nor NaN.
C7_EmptyBinsOmitted ==
    ReductionCompleted =>
        /\ BinsReportedIffFilled(logged, "val/binned/rmse_", Cat(pre.val_labels))
        /\ BinsReportedIffFilled(logged, "test/binned/rmse_", Cat(pre.test_labels))
        /\ Reported(logged, "val/best_rmse") =>
             BinsReportedIffFilled(logged, "test/binned/best_rmse_",
                                   Cat(pre.test_labels))

\* What the reduction does with its bins: a metric for every bin, NaN for
\* the bins without a label, and the reduction still completes.
C7_EveryBinReported ==
    ReductionCompleted =>
        \A k \in 1..Len(BinPairs) :
            LET lb == BinPairs[k].lb
                ub == BinPairs[k].ub
                name == BinName("val/binned/rmse_", lb, ub)
            IN /\ Reported(logged, name)
               /\ IsNaN(ValueOf(logged, name)) <=> InBin(Cat(pre.val_labels), lb, ub) = {}

\* C8: a reduction that finds the validation or the test accumulator empty
\* fails with an error, and reports no overall RMSE for the empty source.
C8_EmptyAccumulatorFails ==
    (op = "on_validation_epoch_end"
        /\ (pre.val_preds = <<>> \/ pre.test_preds = <<>>)) =>
        /\ outcome = "RuntimeError"
        /\ pre.val_preds = <<>> => ~Reported(logged, "val/agbd_rmse")
        /\ pre.test_preds = <<>> => ~Reported(logged, "test/agbd_rmse")
        /\ best_val_rmse = pre.best_val_rmse

\* A reduction found validation samples and no test batch.
C8_Witness ==
    /\ op = "on_validation_epoch_end"
    /\ pre.val_preds # <<>>
    /\ pre.test_preds = <<>>
    /\ outcome = "RuntimeError"

AccumulatorsAsFound ==
    /\ val_preds = pre.val_preds /\ val_labels = pre.val_labels
    /\ test_preds = pre.test_preds /\ test_labels = pre.test_labels

BinsPartition(log, overall, prefix, preds, labels) ==
    /\ \A i \in 1..Len(labels) :
         Cardinality({ k \in 1..Len(BinPairs) :
                         Mask(BinPairs[k].lb, BinPairs[k].ub, labels)[i] })
            = IF 0 <= labels[i] /\ labels[i] < 500 THEN 1 ELSE 0
    /\ \A k \in 1..Len(BinPairs) :
         ValueOf(log, BinName(prefix, BinPairs[k].lb, BinPairs[k].ub)).den
            = Cardinality(InBin(labels, BinPairs[k].lb, BinPairs[k].ub))
    /\ ValueOf(log, overall).den = Len(labels)
    /\ ValueOf(log, overall).num = SumSq(preds, labels)

\* C10: with the boundaries 0, 50, ..., 500 every label of [0, 500) is
\* selected by exactly one bin, a label outside (negative, or >= 500) by
\* none, and every label counts in the overall RMSE of its source.
C10_BinsPartitionLabels ==
    /\ Bins = <<0, 50, 100, 150, 200, 250, 300, 350, 400, 450, 500>>
    /\ ReductionCompleted =>
         /\ BinsPartition(logged, "val/agbd_rmse", "val/binned/rmse_",
                          Cat(pre.val_preds), Cat(pre.val_labels))
         /\ BinsPartition(logged, "test/agbd_rmse", "test/binned/rmse_",
                          Cat(pre.test_preds), Cat(pre.test_labels))

\* A reduction over validation labels on a bin edge (50) and at the upper
\* end of the bins (500).
C10_Witness ==
    /\ ReductionCompleted
    /\ \E i \in 1..Len(Cat(pre.val_labels)) : Cat(pre.val_labels)[i] = 50
    /\ \E i \in 1..Len(Cat(pre.val_labels)) : Cat(pre.val_labels)[i] = 500

\* A reduction over a negative validation label.
C10_NegativeLabelReached ==
    /\ ReductionCompleted
    /\ \E i \in 1..Len(Cat(pre.val_labels)) : Cat(pre.val_labels)[i] < 0

\* C11: a label tensor whose shape is not that of the center-pixel
\* predictions makes the hook fail with a dimension-mismatch error and is
\* never broadcast: training_step given predictions of shape [batch] and
\* labels of any other shape ([batch, 1], another batch size) logs no RMSE,
\* and validation_step given a label batch of another size than the
\* prediction batch appends nothing.
C11_ShapeMismatchFails ==
    /\ (op = "training_step" /\ ~SameShape(arg_batch)) =>
          /\ outcome = "RuntimeError"
          /\ ~Reported(logged, "train/agbd_rmse")
    /\ (op = "validation_step" /\ Len(arg_batch.labels) # Len(arg_batch.preds)) =>
          /\ outcome # "ok"
          /\ AccumulatorsAsFound

\* Labels of shape [batch, 1]: the RMSE logged is the one over the
\* batch x batch table of differences.
C11_BroadcastLogged ==
    ~(/\ op = "training_step"
      /\ arg_batch.label_dims = 2
      /\ Reported(logged, "train/agbd_rmse")
      /\ ValueOf(logged, "train/agbd_rmse").den
            = Len(arg_batch.preds) * Len(arg_batch.labels))

\* A label batch of another size than the prediction batch is appended.
C11_MismatchAppended ==
    ~(/\ op = "validation_step"
      /\ outcome = "ok"
      /\ Len(arg_batch.labels) # Len(arg_batch.preds)
      /\ ~AccumulatorsAsFound)

\* The watermark a completed reduction found.
WatermarkBefore(i) == IF i = 1 THEN Inf ELSE hist[i - 1].watermark

\* The i-th completed reduction changed the watermark.
Updated(i) == hist[i].watermark # WatermarkBefore(i)

\* C12 as claimed: the watermark is updated at most once per epoch; of the
\* reductions run with one value of current_epoch at most one changes it,
\* also when validation runs twice per epoch.
C12_OncePerEpoch ==
    \A i, j \in 1..Len(hist) :
        (i < j /\ hist[i].epoch = hist[j].epoch) => ~(Updated(i) /\ Updated(j))

\* C12: the watermark is updated at most once per epoch-end reduction: it
\* changes only in a reduction that completes, and that reduction either
\* leaves it or sets it to its own validation RMSE.  Reductions that share
\* a value of current_epoch can each update it.
C12_OncePerReduction ==
    /\ best_val_rmse = IF hist = <<>> THEN Inf ELSE hist[Len(hist)].watermark
    /\ best_val_rmse # pre.best_val_rmse => ReductionCompleted
    /\ \A i \in 1..Len(hist) :
          hist[i].watermark \in {WatermarkBefore(i), hist[i].val}

\* Two reductions of epoch 0, each one an improvement.
C12_Witness ==
    /\ ReductionCompleted
    /\ \E i, j \in 1..Len(hist) :
          /\ i < j
          /\ hist[i].epoch = hist[j].epoch
          /\ Updated(i) /\ Updated(j)

\* C13: the center-pixel index is patch_size[0] // 2 without downsampling
\* and (patch_size[0] // 5) // 2 with it, for every positive patch size:
\* the number of whole pixel pairs in the patch, taken after the patch was
\* shrunk to a fifth when downsampling.  Patch size 15 gives 7 and 1.
C13_CenterIndex ==
    op = "__init__" =>
        /\ center >= 0
        /\ ~downsample => (2 * center <= patch_size /\ patch_size < 2 * center + 2)
        /\ downsample =>
              \E fifth \in 0..patch_size :
                  /\ 5 * fifth <= patch_size /\ patch_size < 5 * fifth + 5
                  /\ 2 * center <= fifth /\ fifth < 2 * center + 2
        /\ (patch_size = 15 /\ ~downsample) => center = 7
        /\ (patch_size = 15 /\ downsample) => center = 1

\* A Model built for patch size 15 with downsampling.
C13_Witness ==
    /\ op = "__init__"
    /\ patch_size = 15
    /\ downsample
    /\ center = 1

\* C14: seeding never aborts: with SLURM_ARRAY_TASK_ID set to the decimal
\* text of an integer n the run is seeded with 3 + n; with the variable
\* unset, or set to a text that is no integer, it is seeded with 3.
C14_SeedingFallsBack ==
    op = "seed_everything" =>
        LET written == { n \in TaskIds : Writes(slurm_task_id.text, n) } IN
        /\ outcome = "ok"
        /\ IF slurm_task_id.set /\ written # {}
           THEN \A n \in written : seed = 3 + n
           ELSE seed = 3

\* A task index of two digits.
C14_Witness ==
    /\ op = "seed_everything"
    /\ slurm_task_id = EnvText(<<"1", "7">>)
    /\ seed = 20

\* A text that is no integer: the run is seeded with 3.
C14_FallbackReached ==
    /\ op = "seed_everything"
    /\ slurm_task_id = EnvText(<<"7", "x">>)
    /\ seed = 3

\* The tensors of the calls of a cycle that were routed to a source, in
\* the order of the calls.
Dispatched(arrivals, source) ==
    LET calls == SelectSeq(arrivals, LAMBDA a : Route(a.idx) = source)
    IN [preds |-> [i \in 1..Len(calls) |-> calls[i].batch.preds],
        labels |-> [i \in 1..Len(calls) |-> calls[i].batch.labels]]

\* The metrics of one source among those a reduction logged.
EventsOf(log, overall) ==
    LET first == CHOOSE i \in 1..Len(log) : log[i].name = overall
    IN SubSeq(log, first, first + Len(BinPairs))

\* C15: no mixing across validation cycles: the metrics a completed
\* reduction reports for a source are those of exactly the samples
\* dispatched to that source since the previous reduction was invoked (or
\* since construction), in arrival order, with no sample dispatched before
\* an earlier reduction, also when that earlier reduction failed.
C15_NoMixingAcrossCycles ==
    ReductionCompleted =>
        LET val == Dispatched(pre.cycle.arrivals, "val")
            test == Dispatched(pre.cycle.arrivals, "test")
        IN
        /\ pre.val_preds = val.preds /\ pre.val_labels = val.labels
        /\ pre.test_preds = test.preds /\ pre.test_labels = test.labels
        /\ EventsOf(logged, "val/agbd_rmse")
             = SourceEvents("val/agbd_rmse", "val/binned/rmse_",
                            Cat(val.preds), Cat(val.labels), current_epoch)
        /\ EventsOf(logged, "test/agbd_rmse")
             = SourceEvents("test/agbd_rmse", "test/binned/rmse_",
                            Cat(test.preds), Cat(test.labels), current_epoch)

\* A reduction that failed on an empty validation list and kept the test
\* samples it found.
C15_StaleKept ==
    ~(/\ op = "on_validation_epoch_end"
      /\ outcome = "RuntimeError"
      /\ test_preds # <<>>)

\* C18: the order in which validation batches and test batches alternate
\* does not matter: the accumulators are what the cycle started with
\* followed by the batches of each source in their own order, whatever the
\* order across sources, and the reduction that follows reports the
\* metrics of those and the watermark they give.
C18_InterleavingIndependent ==
    /\ val_preds = cycle.val_preds \o Dispatched(cycle.arrivals, "val").preds
    /\ val_labels = cycle.val_labels \o Dispatched(cycle.arrivals, "val").labels
    /\ test_preds = cycle.test_preds \o Dispatched(cycle.arrivals, "test").preds
    /\ test_labels = cycle.test_labels \o Dispatched(cycle.arrivals, "test").labels
    /\ ReductionCompleted =>
        LET was == pre.cycle
            vp == Cat(was.val_preds \o Dispatched(was.arrivals, "val").preds)
            vl == Cat(was.val_labels \o Dispatched(was.arrivals, "val").labels)
            tp == Cat(was.test_preds \o Dispatched(was.arrivals, "test").preds)
            tl == Cat(was.test_labels \o Dispatched(was.arrivals, "test").labels)
        IN
        /\ EventsOf(logged, "val/agbd_rmse")
             = SourceEvents("val/agbd_rmse", "val/binned/rmse_", vp, vl,
                            current_epoch)
        /\ EventsOf(logged, "test/agbd_rmse")
             = SourceEvents("test/agbd_rmse", "test/binned/rmse_", tp, tl,
                            current_epoch)
        /\ best_val_rmse = IF Lt(RMSE(vp, vl), pre.best_val_rmse)
                           THEN RMSE(vp, vl) ELSE pre.best_val_rmse

\* A reduction after a test batch arrived between two validation batches.
C18_Witness ==
    /\ ReductionCompleted
    /\ Len(pre.cycle.arrivals) = 3
    /\ pre.cycle.arrivals[1].idx = 0
    /\ pre.cycle.arrivals[2].idx = 1
    /\ pre.cycle.arrivals[3].idx = 0

\* The same batches with the test batch first.
C18_OtherOrderReached ==
    /\ ReductionCompleted
    /\ Len(pre.cycle.arrivals) = 3
    /\ pre.cycle.arrivals[1].idx = 1
    /\ pre.cycle.arrivals[2].idx = 0
    /\ pre.cycle.arrivals[3].idx = 0

\* C16: a reduction is all-or-nothing: it either completes every step, or
\* it fails and then has cleared no accumulator, changed no watermark and
\* reported no val/ or test/ metric.
C16_AllOrNothing ==
    op = "on_validation_epoch_end" =>
        \/ /\ outcome = "ok"
           /\ val_preds = <<>> /\ val_labels = <<>>
           /\ test_preds = <<>> /\ test_labels = <<>>
           /\ Reported(logged, "val/agbd_rmse")
           /\ Reported(logged, "test/agbd_rmse")
        \/ /\ outcome # "ok"
           /\ AccumulatorsAsFound
           /\ best_val_rmse = pre.best_val_rmse
           /\ \A i \in 1..Len(logged) : logged[i].name = "trainer/learning_rate"

\* The metric names of the bins, first bin to last.
BinNames(prefix) ==
    [k \in 1..Len(BinPairs) |-> BinName(prefix, BinPairs[k].lb, BinPairs[k].ub)]

\* The statements of a reduction up to the comparison, in the order claimed.
UpToComparison ==
    <<"trainer/learning_rate", "val/agbd_rmse">>
        \o BinNames("val/binned/rmse_") \o ResetVal
        \o <<"test/agbd_rmse">> \o BinNames("test/binned/rmse_") \o ResetTest
        \o Compare

\* The reports of an improvement, in the order claimed.
BestReports ==
    <<"val/best_rmse", "test/best_rmse">> \o BinNames("test/binned/best_rmse_")

IsLogCall(statement) ==
    \A i \in 1..Len(ResetVal \o ResetTest \o Compare) :
        (ResetVal \o ResetTest \o Compare)[i] # statement

\* C17: within one reduction the learning rate is reported first, then
\* val/agbd_rmse, the validation bins in ascending order, the validation
\* accumulator is cleared, then test/agbd_rmse, the test bins in ascending
\* order, the test accumulator is cleared, and only then the watermark is
\* compared and, on improvement, val/best_rmse, test/best_rmse and the best
\* test bins are reported; a failing reduction stops somewhere on that way.
\* Every metric of the reduction carries the same epoch index, the current
\* one.
C17_ReductionOrder ==
    op = "on_validation_epoch_end" =>
        /\ \A k, l \in 1..Len(BinPairs) : k < l => BinPairs[k].ub <= BinPairs[l].lb
        /\ outcome = "ok" =>
              /\ steps \in {UpToComparison, UpToComparison \o BestReports}
              /\ steps = UpToComparison \o BestReports
                    <=> best_val_rmse # pre.best_val_rmse
              /\ \A i \in 1..Len(logged) : logged[i].step = hist[Len(hist)].epoch
        /\ outcome # "ok" =>
              \E n \in 1..(Len(UpToComparison) - 1) :
                  steps = SubSeq(UpToComparison, 1, n)
        /\ LogCalls(logged) = SelectSeq(steps, IsLogCall)
        /\ \A i \in 1..Len(logged) :
              /\ logged[i].step = logged[1].step
              /\ logged[i].step \in {current_epoch, current_epoch - 1}

\* A reduction of epoch 1 that improved on the watermark.
C17_Witness ==
    /\ ReductionCompleted
    /\ current_epoch = 1
    /\ logged[1].step = 1
    /\ Len(steps) = Len(UpToComparison) + Len(BestReports)
    /\ Reported(logged, "test/binned/best_rmse_450-500")

\* C19: between operations, also after a call that failed, each
\* accumulator holds as many prediction tensors as label tensors.
C19_ListsPaired ==
    /\ Len(val_preds) = Len(val_labels)
    /\ Len(test_preds) = Len(test_labels)

\* After a reduction that failed with batches in the test accumulator.
C19_Witness ==
    /\ op = "on_validation_epoch_end"
    /\ outcome = "RuntimeError"
    /\ Len(test_preds) > 0
    /\ Len(test_preds) = Len(test_labels)

\* C20: training_step reports train/agbd_rmse exactly when batch_idx is a
\* multiple of 50 (batch 0 included), returns the training loss for every
\* batch, and leaves both accumulators and the watermark as they were.
C20_TrainingStepFrame ==
    op = "training_step" =>
        /\ Reported(logged, "train/agbd_rmse") <=> arg_idx % 50 = 0
        /\ arg_idx = 0 => Reported(logged, "train/agbd_rmse")
        /\ \A i \in 1..Len(logged) : logged[i].name = "train/agbd_rmse"
        /\ outcome = "loss"
        /\ AccumulatorsAsFound
        /\ best_val_rmse = pre.best_val_rmse

\* Batch 50 of an epoch, with batches waiting in the accumulators and a
\* watermark already set.
C20_Witness ==
    /\ op = "training_step"
    /\ arg_idx = 50
    /\ Reported(logged, "train/agbd_rmse")
    /\ val_preds # <<>>
    /\ IsFinite(best_val_rmse)

\* Batch 1: nothing is reported.
C20_SilentBatchReached ==
    /\ op = "training_step"
    /\ arg_idx = 1
    /\ logged = <<>>
    /\ outcome = "loss"

====
